---- MODULE Spec2Model ----
(***************************************************************************)
(* Model of twitter_dashboard.py: the cached loader load_data (three JSON  *)
(* documents -> trend sets, engagement table, language table) and the      *)
(* script body main, which Streamlit re-runs on every user interaction.    *)
(*                                                                         *)
(* Numbers: Normalized_Engagement_Rate is a float64 in the program.  The   *)
(* model keeps the exact quotient as a reduced fraction and the two IEEE   *)
(* special values a division by zero yields (inf, NaN); the rounding of    *)
(* the last bit of a finite quotient is not modelled.                      *)
(***************************************************************************)
EXTENDS Integers, Sequences, FiniteSets, TLC

VARIABLES files, cache, bodyRuns, cycles, history

vars == <<files, cache, bodyRuns, cycles, history>>

----------------------------------------------------------------------------
(* Bounds of the model *)

MaxCycles == 2
MaxTrends == 3
MaxTweets == 3
MaxLangTweets == 4

(* main shows df_agg[...].head(10) *)
HeadRows == 10

----------------------------------------------------------------------------
(* Generic helpers *)

RECURSIVE SeqsUpTo(_, _)
SeqsUpTo(S, n) ==
    IF n = 0 THEN {<<>>}
    ELSE LET shorter == SeqsUpTo(S, n - 1)
         IN  shorter \cup {Append(s, x) : s \in {t \in shorter : Len(t) = n - 1}, x \in S}

Min(a, b) == IF a <= b THEN a ELSE b

RECURSIVE Gcd(_, _)
Gcd(a, b) == IF b = 0 THEN a ELSE Gcd(b, a % b)

(* Python's order on the strings the model uses (code-point order). *)
StrOrder == <<"A", "B", "T", "U", "en", "es", "und">>

StrRank(s) == CHOOSE i \in 1..Len(StrOrder) : StrOrder[i] = s

----------------------------------------------------------------------------
(* Python values *)

None == [isNone |-> TRUE]

Box(v) == [isNone |-> FALSE, v |-> v]

IsNone(x) == x.isNone

(* A file of the datasets folder: absent, or the parsed JSON it holds. *)
Missing == [exists |-> FALSE, content |-> <<>>]

File(c) == [exists |-> TRUE, content |-> c]

(* First element of a trend document: with or without the 'trends' key. *)
TrendElem(names) == [has_trends |-> TRUE, trends |-> [i \in 1..Len(names) |-> [name |-> names[i]]]]

NoTrendsElem == [has_trends |-> FALSE, trends |-> <<>>]

(* A tweet; the rs_ fields are those of its 'retweeted_status' sub-record. *)
Retweet(rt, fav, fol, sn, txt, lg) ==
    [has_retweeted_status |-> TRUE, retweet_count |-> rt, rs_favorite_count |-> fav,
     rs_followers_count |-> fol, rs_screen_name |-> sn, text |-> txt, lang |-> lg]

Original(txt, lg) ==
    [has_retweeted_status |-> FALSE, retweet_count |-> 0, rs_favorite_count |-> 0,
     rs_followers_count |-> 0, rs_screen_name |-> "A", text |-> txt, lang |-> lg]

----------------------------------------------------------------------------
(* load_data, lines 29-32: the trend sets *)

TrendNames(doc) == {doc[1].trends[i].name : i \in 1..Len(doc[1].trends)}

CommonUnion(world, us) == world \cup us

Common(world, us) == world \cap us

----------------------------------------------------------------------------
(* load_data, lines 35-48: the retweet rows and the DataFrame *)

Row(tweet) ==
    [Retweets |-> tweet.retweet_count, Favorites |-> tweet.rs_favorite_count,
     Followers |-> tweet.rs_followers_count, ScreenName |-> tweet.rs_screen_name,
     Text |-> tweet.text, Lang |-> tweet.lang]

RECURSIVE RetweetsData(_)
RetweetsData(tweets) ==
    IF tweets = <<>> THEN <<>>
    ELSE IF Head(tweets).has_retweeted_status
         THEN <<Row(Head(tweets))>> \o RetweetsData(Tail(tweets))
         ELSE RetweetsData(Tail(tweets))

RowColumns == {"Retweets", "Favorites", "Followers", "ScreenName", "Text", "Lang"}

(* pd.DataFrame(list of dicts): the columns are the dicts' keys, so an empty
   list gives a frame without columns. *)
DataFrame(rows) == [columns |-> IF rows = <<>> THEN {} ELSE RowColumns, rows |-> rows]

----------------------------------------------------------------------------
(* load_data, lines 52-55: groupby(...).agg(sum).reset_index() *)

GroupKeys == {"ScreenName", "Text", "Followers"}

KeyOf(r) == <<r.ScreenName, r.Text, r.Followers>>

(* groupby sorts the groups by key (sort=True is the default). *)
KeyLess(k, j) ==
    \/ StrRank(k[1]) < StrRank(j[1])
    \/ k[1] = j[1] /\ StrRank(k[2]) < StrRank(j[2])
    \/ k[1] = j[1] /\ k[2] = j[2] /\ k[3] < j[3]

RECURSIVE SortKeys(_)
SortKeys(S) ==
    IF S = {} THEN <<>>
    ELSE LET m == CHOOSE k \in S : \A j \in S \ {k} : KeyLess(k, j)
         IN  <<m>> \o SortKeys(S \ {m})

RECURSIVE SumOf(_, _, _)
SumOf(rows, key, col) ==
    IF rows = <<>> THEN 0
    ELSE (IF KeyOf(Head(rows)) = key THEN Head(rows)[col] ELSE 0) + SumOf(Tail(rows), key, col)

GroupByFirstOnly(rows) ==
    LET keys == SortKeys({KeyOf(rows[i]) : i \in 1..Len(rows)})
        first(k) == CHOOSE i \in 1..Len(rows) :
                       KeyOf(rows[i]) = k /\ \A j \in 1..(i - 1) : KeyOf(rows[j]) # k
    IN  [i \in 1..Len(keys) |->
            [ScreenName |-> keys[i][1], Text |-> keys[i][2], Followers |-> keys[i][3],
             Total_Retweets |-> rows[first(keys[i])].Retweets,
             Total_Favorites |-> rows[first(keys[i])].Favorites]]

GroupBy(rows) ==
    LET keys == SortKeys({KeyOf(rows[i]) : i \in 1..Len(rows)})
    IN  [i \in 1..Len(keys) |->
            [ScreenName |-> keys[i][1], Text |-> keys[i][2], Followers |-> keys[i][3],
             Total_Retweets |-> SumOf(rows, keys[i], "Retweets"),
             Total_Favorites |-> SumOf(rows, keys[i], "Favorites")]]

----------------------------------------------------------------------------
(* load_data, lines 58-59: the engagement columns *)

Inf == [kind |-> "inf", num |-> 0, den |-> 0]

NaN == [kind |-> "nan", num |-> 0, den |-> 0]

Finite(n, d) == [kind |-> "finite", num |-> n \div Gcd(n, d), den |-> d \div Gcd(n, d)]

(* (Total_Engagement / Followers) * 100 on int64 columns: pandas gives inf
   for x/0 with x > 0 and NaN for 0/0, and raises nothing. *)
EngagementRate(te, followers) ==
    IF followers = 0
    THEN IF te = 0 THEN NaN ELSE Inf
    ELSE Finite(100 * te, followers)

WithEngagement(g) ==
    [ScreenName |-> g.ScreenName, Text |-> g.Text, Followers |-> g.Followers,
     Total_Retweets |-> g.Total_Retweets, Total_Favorites |-> g.Total_Favorites,
     Total_Engagement |-> g.Total_Retweets + g.Total_Favorites,
     Normalized_Engagement_Rate |->
         EngagementRate(g.Total_Retweets + g.Total_Favorites, g.Followers)]

----------------------------------------------------------------------------
(* load_data, line 60: sort_values(by='Followers', ascending=False) *)

Reorderings(t) ==
    {[i \in 1..Len(t) |-> t[p[i]]] :
        p \in {q \in [1..Len(t) -> 1..Len(t)] : \A a, b \in 1..Len(t) : a # b => q[a] # q[b]}}

SortAscending(t) ==
    {s \in Reorderings(t) : \A i \in 1..(Len(s) - 1) : s[i].Followers <= s[i + 1].Followers}

(* The default kind is 'quicksort', which is not stable: rows with equal
   Followers may come out in any order, so every ordered arrangement is a
   possible result. *)
SortValues(t) ==
    {s \in Reorderings(t) : \A i \in 1..(Len(s) - 1) : s[i].Followers >= s[i + 1].Followers}

----------------------------------------------------------------------------
(* load_data, line 63: Counter(df['Lang']).most_common() as a DataFrame *)

(* Counter is a dict: its items are in the order the keys were first seen. *)
RECURSIVE CounterDistinct(_)
CounterDistinct(langs) ==
    IF langs = <<>> THEN <<>>
    ELSE LET init == CounterDistinct(SubSeq(langs, 1, Len(langs) - 1))
             x    == langs[Len(langs)]
         IN  IF \E i \in 1..Len(init) : init[i][1] = x
             THEN init
             ELSE Append(init, <<x, 1>>)

RECURSIVE Counter(_)
Counter(langs) ==
    IF langs = <<>> THEN <<>>
    ELSE LET init == Counter(SubSeq(langs, 1, Len(langs) - 1))
             x    == langs[Len(langs)]
         IN  IF \E i \in 1..Len(init) : init[i][1] = x
             THEN [i \in 1..Len(init) |->
                      IF init[i][1] = x THEN <<x, init[i][2] + 1>> ELSE init[i]]
             ELSE Append(init, <<x, 1>>)

InsertBeforeTies(sorted, x) ==
    LET k == Cardinality({i \in 1..Len(sorted) : sorted[i][2] > x[2]})
    IN  SubSeq(sorted, 1, k) \o <<x>> \o SubSeq(sorted, k + 1, Len(sorted))

(* most_common() is sorted(items, key=count, reverse=True); sorted is stable
   and reverse=True keeps the original order of equal counts. *)
InsertDesc(sorted, x) ==
    LET k == Cardinality({i \in 1..Len(sorted) : sorted[i][2] >= x[2]})
    IN  SubSeq(sorted, 1, k) \o <<x>> \o SubSeq(sorted, k + 1, Len(sorted))

RECURSIVE MostCommon(_)
MostCommon(items) ==
    IF items = <<>> THEN <<>>
    ELSE InsertDesc(MostCommon(SubSeq(items, 1, Len(items) - 1)), items[Len(items)])

LangCounts(rows) ==
    LET mc == MostCommon(Counter([i \in 1..Len(rows) |-> rows[i].Lang]))
    IN  [i \in 1..Len(mc) |-> [Lang |-> mc[i][1], Count |-> mc[i][2]]]

----------------------------------------------------------------------------
(* load_data, lines 12-65: one execution of the function body.  The result
   is what the body does: the exception it raises (if any), the number of
   st.error notices it emits, and the tuple it returns. *)

Raise(exc) == [raised |-> exc, errors |-> 0, value |-> <<>>]

Return(errs, v) == [raised |-> "", errors |-> errs, value |-> v]

EngagementTable(rows) ==
    LET g == GroupBy(rows)
    IN  SortValues([i \in 1..Len(g) |-> WithEngagement(g[i])])

load_data(f) ==
    IF ~f.WW.exists \/ ~f.US.exists \/ ~f.tweets.exists
    THEN {Return(1, <<None, None, None, None>>)}
    ELSE IF f.WW.content = <<>> THEN {Raise("IndexError")}
    ELSE IF ~f.WW.content[1].has_trends THEN {Raise("KeyError")}
    ELSE IF f.US.content = <<>> THEN {Raise("IndexError")}
    ELSE IF ~f.US.content[1].has_trends THEN {Raise("KeyError")}
    ELSE LET world_trends == TrendNames(f.WW.content)
             us_trends    == TrendNames(f.US.content)
             df           == DataFrame(RetweetsData(f.tweets.content))
         IN  IF ~(GroupKeys \subseteq df.columns)
             THEN {Raise("KeyError")}
             ELSE {Return(0, <<Box(world_trends), Box(us_trends),
                               Box(Common(world_trends, us_trends)),
                               Box(df_agg), Box(LangCounts(df.rows))>>) :
                      df_agg \in EngagementTable(df.rows)}

----------------------------------------------------------------------------
(* @st.cache_data, lines 10-11: the first call that returns stores the
   returned value together with the st elements the body emitted; later
   calls return the stored value and replay the elements without running
   the body.  A call that raises stores nothing. *)

EmptyCache == [filled |-> FALSE, errors |-> 0, value |-> <<>>]

cache_data(c, f) ==
    IF c.filled
    THEN {[out |-> Return(c.errors, c.value), cache |-> c, ran |-> 0]}
    ELSE {[out   |-> o,
           cache |-> IF o.raised = "" THEN [filled |-> TRUE, errors |-> o.errors, value |-> o.value]
                     ELSE c,
           ran   |-> 1] : o \in load_data(f)}

----------------------------------------------------------------------------
(* main, lines 203-243: one run of the script *)

Charts == <<"create_venn_diagram", "dataframe", "create_engagement_scatter",
            "create_engagement_bar_chart", "create_language_map_and_chart">>

Head10(t) == SubSeq(t, 1, Min(HeadRows, Len(t)))

Run(errs, exc, charts, products, shown) ==
    [errors |-> errs, uncaught |-> exc, rendered |-> charts, products |-> products,
     shown |-> shown]

MainBody(o) ==
    IF o.raised # ""
    THEN Run(o.errors, o.raised, <<>>, <<>>, <<>>)
    ELSE IF Len(o.value) # 5
         THEN (* unpacking into five names *)
              Run(o.errors, "ValueError", <<>>, <<>>, <<>>)
         ELSE IF IsNone(o.value[1])
              THEN Run(o.errors, "", <<>>, o.value, <<>>)
              ELSE Run(o.errors, "", Charts, o.value, Head10(o.value[4].v))

main ==
    /\ cycles < MaxCycles
    /\ \E call \in cache_data(cache, files) :
          /\ cache' = call.cache
          /\ bodyRuns' = bodyRuns + call.ran
          /\ history' = Append(history, MainBody(call.out))
    /\ cycles' = cycles + 1
    /\ UNCHANGED files

Next == main

----------------------------------------------------------------------------
(* Initial states: the contents of the datasets folder *)

TrendNamesUniverse == {"a", "b", "c", "d"}

ValidTrendFile == File(<<TrendElem(<<"a", "b">>)>>)

ValidTweetsFile == File(<<Retweet(5, 10, 100, "A", "T", "en")>>)

Started ==
    /\ cache = EmptyCache
    /\ bodyRuns = 0
    /\ cycles = 0
    /\ history = <<>>

(* Spec: files may be missing, trend documents may be malformed. *)
MaxErrTrends == 1
MaxErrTweets == 2

ErrTrendFiles ==
    {Missing, File(<<>>), File(<<NoTrendsElem>>)}
        \cup {File(<<TrendElem(s)>>) : s \in SeqsUpTo({"a", "b"}, MaxErrTrends)}

ErrTweets ==
    {Original("T", "en"), Retweet(5, 10, 100, "A", "T", "en"), Retweet(3, 2, 0, "B", "T", "es")}

ErrTweetFiles == {Missing} \cup {File(c) : c \in SeqsUpTo(ErrTweets, MaxErrTweets)}

Init ==
    /\ files \in [WW : ErrTrendFiles, US : ErrTrendFiles, tweets : ErrTweetFiles]
    /\ Started

Spec == Init /\ [][Next]_vars

(* SpecTrends: well-formed trend documents of every content. *)
TrendFiles == {File(<<TrendElem(s)>>) : s \in SeqsUpTo(TrendNamesUniverse, MaxTrends)}

InitTrends ==
    /\ files \in [WW : TrendFiles, US : TrendFiles, tweets : {ValidTweetsFile}]
    /\ Started

SpecTrends == InitTrends /\ [][Next]_vars

(* SpecAgg: tweet corpora that vary in key and counts. *)
AggTweets ==
    {Original("T", "en")}
        \cup {Retweet(rf[1], rf[2], fol, who[1], who[2], "en") :
                 rf \in {<<5, 10>>, <<3, 2>>}, fol \in {0, 100},
                 who \in {<<"A", "T">>, <<"A", "U">>, <<"B", "T">>}}

InitAgg ==
    /\ files \in [WW : {ValidTrendFile}, US : {ValidTrendFile},
                  tweets : {File(c) : c \in SeqsUpTo(AggTweets, MaxTweets)}]
    /\ Started

SpecAgg == InitAgg /\ [][Next]_vars

(* SpecLang: tweet corpora that vary in language and in qualifying. *)
Langs == {"en", "es", "und"}

LangTweets ==
    {Retweet(5, 10, 100, "A", "T", lg) : lg \in Langs} \cup {Original("T", lg) : lg \in Langs}

InitLang ==
    /\ files \in [WW : {ValidTrendFile}, US : {ValidTrendFile},
                  tweets : {File(c) : c \in SeqsUpTo(LangTweets, MaxLangTweets)}]
    /\ Started

SpecLang == InitLang /\ [][Next]_vars

----------------------------------------------------------------------------
(* Vocabulary of the properties: what the files hold, stated on the files
   themselves and not through the operators of load_data. *)

Runs == 1..Len(history)

AnyMissing == ~files.WW.exists \/ ~files.US.exists \/ ~files.tweets.exists

MalformedDoc(f) == f.content = <<>> \/ ~f.content[1].has_trends

Malformed == ~AnyMissing /\ (MalformedDoc(files.WW) \/ MalformedDoc(files.US))

WellFormed == ~AnyMissing /\ ~MalformedDoc(files.WW) /\ ~MalformedDoc(files.US)

Corpus == files.tweets.content

Qualifying == {j \in 1..Len(Corpus) : Corpus[j].has_retweeted_status}

RecordKey(j) == <<Corpus[j].rs_screen_name, Corpus[j].text, Corpus[j].rs_followers_count>>

RowKey(r) == <<r.ScreenName, r.Text, r.Followers>>

RECURSIVE SumOver(_, _)
SumOver(S, f) ==
    IF S = {} THEN 0
    ELSE LET x == CHOOSE y \in S : TRUE IN f[x] + SumOver(S \ {x}, f)

NamesIn(f) ==
    {n \in TrendNamesUniverse : \E i \in 1..Len(f.content[1].trends) : f.content[1].trends[i].name = n}

(* The run returned the five data products and main rendered them. *)
Loaded(i) == history[i].rendered # <<>>

Table(i) == history[i].products[4].v

LangTable(i) == history[i].products[5].v

NoProducts(i) == \A k \in 1..Len(history[i].products) : IsNone(history[i].products[k])

----------------------------------------------------------------------------
(* C1: when one of the three files is missing, every cycle shows exactly one
   error notice and nothing else: no uncaught exception, no data product, no
   chart-rendering operation. *)
C1_MissingFileSingleNotice ==
    \A i \in Runs :
        AnyMissing =>
            /\ history[i].errors = 1
            /\ history[i].uncaught = ""
            /\ NoProducts(i)
            /\ history[i].rendered = <<>>

(* C2: a trend document that is empty or whose first element has no 'trends'
   key ends the cycle like a missing file: the error notice, no uncaught
   exception, no data product, no chart. *)
C2_MalformedTrendFailsClosed ==
    \A i \in Runs :
        Malformed =>
            /\ history[i].errors = 1
            /\ history[i].uncaught = ""
            /\ NoProducts(i)
            /\ history[i].rendered = <<>>

(* C3: the engagement table has one row per distinct key of the qualifying
   records; each row carries the sums of Retweets and Favorites of the
   records of its key, their total, and 100 * total / Followers (the IEEE
   quotient when Followers is 0); the Total_Retweets of the table add up to
   the Retweets of the qualifying records. *)
C3_Aggregation ==
    \A i \in Runs :
        Loaded(i) =>
            LET t == Table(i)
                rt  == [j \in 1..Len(Corpus) |-> Corpus[j].retweet_count]
                fav == [j \in 1..Len(Corpus) |-> Corpus[j].rs_favorite_count]
                tr  == [k \in 1..Len(t) |-> t[k].Total_Retweets]
            IN  /\ {RowKey(t[k]) : k \in 1..Len(t)} = {RecordKey(j) : j \in Qualifying}
                /\ \A a, b \in 1..Len(t) : RowKey(t[a]) = RowKey(t[b]) => a = b
                /\ \A k \in 1..Len(t) :
                      LET mine == {j \in Qualifying : RecordKey(j) = RowKey(t[k])}
                          rate == t[k].Normalized_Engagement_Rate
                      IN  /\ t[k].Total_Retweets = SumOver(mine, rt)
                          /\ t[k].Total_Favorites = SumOver(mine, fav)
                          /\ t[k].Total_Engagement = t[k].Total_Retweets + t[k].Total_Favorites
                          /\ t[k].Followers > 0 =>
                                /\ rate.kind = "finite"
                                /\ rate.num * t[k].Followers = 100 * t[k].Total_Engagement * rate.den
                          /\ t[k].Followers = 0 =>
                                rate.kind = IF t[k].Total_Engagement = 0 THEN "nan" ELSE "inf"
                /\ SumOver(1..Len(t), tr) = SumOver(Qualifying, rt)

(* C3 witness: the two records (A, T, 100) with (5, 10) and (3, 2) were
   aggregated into the row 8, 12, 20, 20.0. *)
C3_Witness ==
    \E i \in Runs :
        /\ Loaded(i)
        /\ Cardinality({j \in Qualifying : RecordKey(j) = <<"A", "T", 100>>}) = 2
        /\ \E k \in 1..Len(Table(i)) :
              /\ RowKey(Table(i)[k]) = <<"A", "T", 100>>
              /\ Table(i)[k].Total_Retweets = 8
              /\ Table(i)[k].Total_Favorites = 12
              /\ Table(i)[k].Total_Engagement = 20
              /\ Table(i)[k].Normalized_Engagement_Rate = [kind |-> "finite", num |-> 20, den |-> 1]

(* C4: the common-trend set is the intersection of the world and region
   name sets, and is no larger than either. *)
C4_CommonIsIntersection ==
    \A i \in Runs :
        Loaded(i) =>
            LET p == history[i].products
            IN  /\ p[1].v = NamesIn(files.WW)
                /\ p[2].v = NamesIn(files.US)
                /\ \A n \in TrendNamesUniverse :
                      n \in p[3].v <=> (n \in NamesIn(files.WW) /\ n \in NamesIn(files.US))
                /\ p[3].v \subseteq TrendNamesUniverse
                /\ Cardinality(p[3].v) <= Min(Cardinality(p[1].v), Cardinality(p[2].v))

(* C4 witness: world {a,b,c} and region {b,c,d} gave {b,c}. *)
C4_Witness ==
    \E i \in Runs :
        /\ Loaded(i)
        /\ NamesIn(files.WW) = {"a", "b", "c"}
        /\ NamesIn(files.US) = {"b", "c", "d"}
        /\ history[i].products[3].v = {"b", "c"}

(* C5: no row of the engagement table handed to the presentation layer has
   an infinite or NaN Normalized_Engagement_Rate. *)
C5_NoUndefinedRate ==
    \A i \in Runs :
        Loaded(i) =>
            \A k \in 1..Len(Table(i)) : Table(i)[k].Normalized_Engagement_Rate.kind = "finite"

(* C6: over the cycles of one process the body of load_data runs at most
   once, and every cycle receives the data products of the first. *)
C6_LoadedOnce ==
    /\ bodyRuns <= 1
    /\ \A i \in Runs : history[i].products = history[1].products

C8_LangOrder ==
    \A i \in Runs :
        Loaded(i) =>
            LET lc == LangTable(i)
                firstSeen(l) == CHOOSE j \in Qualifying :
                                   /\ Corpus[j].lang = l
                                   /\ \A h \in Qualifying : Corpus[h].lang = l => j <= h
            IN  /\ {lc[k].Lang : k \in 1..Len(lc)} = {Corpus[j].lang : j \in Qualifying}
                /\ \A a, b \in 1..Len(lc) : lc[a].Lang = lc[b].Lang => a = b
                /\ \A k \in 1..Len(lc) :
                      lc[k].Count = Cardinality({j \in Qualifying : Corpus[j].lang = lc[k].Lang})
                /\ \A a, b \in 1..Len(lc) :
                      a < b =>
                          /\ lc[a].Count >= lc[b].Count
                          /\ lc[a].Count = lc[b].Count =>
                                firstSeen(lc[a].Lang) < firstSeen(lc[b].Lang)

(* C8 witness: Lang values en, en, es, und gave (en,2), (es,1), (und,1). *)
C8_Witness ==
    \E i \in Runs :
        /\ Loaded(i)
        /\ [j \in 1..Len(Corpus) |-> Corpus[j].lang] = <<"en", "en", "es", "und">>
        /\ Qualifying = 1..4
        /\ LangTable(i) = <<[Lang |-> "en", Count |-> 2], [Lang |-> "es", Count |-> 1],
                            [Lang |-> "und", Count |-> 1]>>

(* C9: the counts of the language table add up to the number of qualifying
   records. *)
C9_CountsSum ==
    \A i \in Runs :
        Loaded(i) =>
            LET cnt == [k \in 1..Len(LangTable(i)) |-> LangTable(i)[k].Count]
            IN  SumOver(1..Len(LangTable(i)), cnt) = Cardinality(Qualifying)

(* C9 witness: a corpus with records that do not qualify, and more
   qualifying records than rows of the engagement table. *)
C9_Witness ==
    \E i \in Runs :
        /\ Loaded(i)
        /\ Cardinality(Qualifying) < Len(Corpus)
        /\ Len(Table(i)) < Cardinality(Qualifying)
        /\ Len(LangTable(i)) > 1

(* C10: records without 'retweeted_status' add no row and no count and
   cause no failure; a corpus without qualifying records loads with an
   empty engagement table and an empty language table. *)
C10_NonQualifyingExcluded ==
    \A i \in Runs :
        WellFormed =>
            /\ history[i].uncaught = ""
            /\ Len(history[i].products) = 5
            /\ Len(Table(i)) = Cardinality({RecordKey(j) : j \in Qualifying})
            /\ LET cnt == [k \in 1..Len(LangTable(i)) |-> LangTable(i)[k].Count]
               IN  SumOver(1..Len(LangTable(i)), cnt) = Cardinality(Qualifying)
            /\ Qualifying = {} => Table(i) = <<>> /\ LangTable(i) = <<>>

====
